---------------------------- MODULE Spec2Model ----------------------------
(***************************************************************************)
(* A/B testing dashboard (app.py): one linear script that loads a wide     *)
(* table of campaign metrics, reshapes it into one observation per         *)
(* (date, platform), aggregates per platform, filters by date range and    *)
(* platform, and displays highlighted comparisons.                         *)
(*                                                                         *)
(* Numbers.  Counts (views, clicks, conversions) are integers.  Rates and  *)
(* costs (cost_per_ad, ctr, conversion_rate, cost_per_click) and every     *)
(* mean are held in hundredths: 50 stands for the float 0.5.  A value read *)
(* out of a pandas Series is tagged with its Python type, because str()    *)
(* of the int 0 is "0" and str() of the float 0.0 is "0.0".                *)
(*                                                                         *)
(* Strings are sequences of one-character strings, compared the way Python *)
(* compares str: lexicographically by code point.                          *)
(***************************************************************************)
EXTENDS Integers, Sequences, FiniteSets, TLC

\* Bounds of the model.
MaxRecords == 2
FormatSpan == 60

Platforms == {"Facebook", "AdWords"}

-----------------------------------------------------------------------------
(* Python values and strings *)

PyInt(n) == [type |-> "int", v |-> n]
PyFloat(h) == [type |-> "float", v |-> h]

\* The numeric value of a tagged number, in hundredths.
Cents(x) == IF x.type = "int" THEN x.v * 100 ELSE x.v

Digits == <<"0", "1", "2", "3", "4", "5", "6", "7", "8", "9">>

Digit(d) == Digits[d + 1]

\* Code points of the characters the display strings are made of.
Ord(c) ==
    CASE c = "$" -> 36
      [] c = "%" -> 37
      [] c = "." -> 46
      [] c = "K" -> 75
      [] c = "M" -> 77
      [] OTHER -> 48 + (CHOOSE d \in 0 .. 9 : Digit(d) = c)

RECURSIVE IntStr(_)
\* str(n) of a non-negative int.
IntStr(n) == IF n < 10 THEN <<Digit(n)>> ELSE IntStr(n \div 10) \o <<Digit(n % 10)>>

\* str(x) of a float x >= 0 with at most two decimals (h is x in hundredths):
\* the shortest repr, which always keeps one digit after the point.
FloatStr(h) ==
    IntStr(h \div 100) \o <<".">> \o
        (IF h % 10 = 0 THEN <<Digit((h % 100) \div 10)>>
                       ELSE <<Digit((h % 100) \div 10), Digit(h % 10)>>)

\* f"{x}" of a tagged number.
PyStr(x) == IF x.type = "int" THEN IntStr(x.v) ELSE FloatStr(x.v)

RECURSIVE StrLess(_, _)
\* s < t on Python str.
StrLess(s, t) ==
    IF t = <<>> THEN FALSE
    ELSE IF s = <<>> THEN TRUE
    ELSE IF Ord(Head(s)) # Ord(Head(t)) THEN Ord(Head(s)) < Ord(Head(t))
    ELSE StrLess(Tail(s), Tail(t))

\* Round num/den to the nearest integer, ties to the even one (numpy rint).
RoundHalfEven(num, den) ==
    LET q == num \div den
        r == num % den
    IN  IF 2 * r < den THEN q
        ELSE IF 2 * r > den THEN q + 1
        ELSE IF q % 2 = 0 THEN q ELSE q + 1


RECURSIVE Log2Floor20(_, _)
\* The binary exponent e of m/20 >= 1: 2^e <= m/20 < 2^(e+1).  Called with
\* p = 1; p runs through the powers of two.
Log2Floor20(m, p) == IF 40 * p <= m THEN 1 + Log2Floor20(m, 2 * p) ELSE 0

\* 2^k mod 20 for k >= 2.
Pow2Mod20(k) == <<16, 12, 4, 8>>[(k % 4) + 1]

\* The tenths printed by f"{n/d:.1f}" for ints n >= d > 0.  n/d is the double
\* nearest to the quotient and .1f rounds that double exactly, ties to even.
\* Where the quotient lies halfway between two tenths it is m/20 with m odd:
\* the double is exact when 5 divides m, and otherwise lies above or below
\* m/20 as the 53-bit rounding of m * 2^k / 20 goes up or down.
Fixed1Tenths(n, d) ==
    LET t == (10 * n) \div d
        r == (10 * n) % d
        m == 2 * t + 1
        k == 52 - Log2Floor20(m, 1)
        rr == ((m % 20) * Pow2Mod20(k)) % 20
    IN  IF 2 * r < d THEN t
        ELSE IF 2 * r > d THEN t + 1
        ELSE IF m % 5 = 0 THEN (IF t % 2 = 0 THEN t ELSE t + 1)
        ELSE IF rr > 10 THEN t + 1 ELSE t

\* f"{n/d:.1f}"
Fixed1Str(n, d) ==
    LET t == Fixed1Tenths(n, d)
    IN  IntStr(t \div 10) \o <<".">> \o <<Digit(t % 10)>>

\* A plausible slip: the thresholds compared with > instead of >=.
format_num_strict(n) ==
    IF n > 1000000 THEN Fixed1Str(n, 1000000) \o <<"M">>
    ELSE IF n > 1000 THEN Fixed1Str(n, 1000) \o <<"K">>
    ELSE IntStr(n)

\* def format_num(n), applied to an int.
format_num(n) ==
    IF n >= 1000000 THEN Fixed1Str(n, 1000000) \o <<"M">>
    ELSE IF n >= 1000 THEN Fixed1Str(n, 1000) \o <<"K">>
    ELSE IntStr(n)

-----------------------------------------------------------------------------
(* The dataset *)

\* The seven metric columns of one platform on one date.  Costs and rates are
\* even numbers of hundredths, so that no mean of up to three of them lies
\* halfway between two hundredths (where float rounding is not the exact one).
MetricRows ==
    { <<100, 999, 0, 100, 900, 0, 50>>,
      <<80, 1000, 5, 200, 1000, 250, 80>>,
      <<1500000, 1001, 7, 300, 50, 1200, 900>>,
      <<1000, 80, 12, 400, 80, 250, 1000>> }

\* One row of the CSV: the campaign date and both platforms' columns.
WideRow(d, fb, aw) ==
    [ date_of_campaign           |-> d,
      facebook_ad_views          |-> fb[1],
      facebook_ad_clicks         |-> fb[2],
      facebook_ad_conversions    |-> fb[3],
      facebook_cost_per_ad       |-> fb[4],
      facebook_ctr               |-> fb[5],
      facebook_conversion_rate   |-> fb[6],
      facebook_cost_per_click    |-> fb[7],
      adword_ad_views            |-> aw[1],
      adword_ad_clicks           |-> aw[2],
      adword_ad_conversions      |-> aw[3],
      adword_cost_per_ad         |-> aw[4],
      adword_ctr                 |-> aw[5],
      adword_conversion_rate     |-> aw[6],
      adword_cost_per_click      |-> aw[7] ]

\* The tables pd.read_csv can return: 1..MaxRecords rows, one per date, the
\* i-th row dated i.
Datasets ==
    UNION { { [i \in 1 .. n |-> WideRow(i, c[i][1], c[i][2])] :
                c \in [1 .. n -> MetricRows \X MetricRows] } :
            n \in 1 .. MaxRecords }

-----------------------------------------------------------------------------
(* Step 2: reshape *)

FacebookCols ==
    << "date_of_campaign", "facebook_ad_views", "facebook_ad_clicks",
       "facebook_ad_conversions", "facebook_cost_per_ad",
       "facebook_ctr", "facebook_conversion_rate", "facebook_cost_per_click" >>

\* A plausible slip: two column names exchanged in the selection.
AdwordCols_swapped ==
    << "date_of_campaign", "adword_ad_clicks", "adword_ad_views",
       "adword_ad_conversions", "adword_cost_per_ad",
       "adword_ctr", "adword_conversion_rate", "adword_cost_per_click" >>

AdwordCols ==
    << "date_of_campaign", "adword_ad_views", "adword_ad_clicks",
       "adword_ad_conversions", "adword_cost_per_ad",
       "adword_ctr", "adword_conversion_rate", "adword_cost_per_click" >>

\* facebook.columns = [...]: the new names, by position.
LongCols ==
    << "date", "views", "clicks", "conversions", "cost_per_ad",
       "ctr", "conversion_rate", "cost_per_click", "platform" >>

\* frame[[cols]].copy(); frame["platform"] = tag; frame.columns = LongCols
\* The selection keeps the columns in the order asked for, the tag becomes
\* the last column, and the renaming is by position.
SelectTagRename(frame, cols, tag) ==
    [ i \in 1 .. Len(frame) |->
        LET cells == [j \in 1 .. Len(cols) |-> frame[i][cols[j]]] \o <<tag>>
        IN  [ c \in {LongCols[j] : j \in 1 .. Len(LongCols)} |->
                cells[CHOOSE j \in 1 .. Len(LongCols) : LongCols[j] = c] ] ]

facebook(frame) == SelectTagRename(frame, FacebookCols, "Facebook")

adwords(frame) == SelectTagRename(frame, AdwordCols, "AdWords")

\* pd.concat([facebook, adwords], ignore_index=True)
Concat(frame) == facebook(frame) \o adwords(frame)

-----------------------------------------------------------------------------
(* groupby("platform") *)

\* The keys of a groupby: the platforms that have at least one row.
GroupKeys(data) == {data[i].platform : i \in 1 .. Len(data)}

\* A plausible slip: the group is not restricted to its platform.
GroupRows_all(data, p) == data

GroupRows(data, p) == SelectSeq(data, LAMBDA r : r.platform = p)

RECURSIVE SumCol(_, _)
SumCol(rows, col) ==
    IF rows = <<>> THEN 0 ELSE rows[1][col] + SumCol(Tail(rows), col)

\* .mean().round(2) of a column whose cells are `scale` hundredths per unit:
\* the result in hundredths.
MeanRound2(rows, col, scale) == RoundHalfEven(SumCol(rows, col) * scale, Len(rows))

\* data.groupby("platform")[col].sum()
GroupSum(data, col) ==
    [p \in GroupKeys(data) |-> PyInt(SumCol(GroupRows(data, p), col))]

\* data.groupby("platform")[col].mean().round(2), col a rate or a cost
GroupMean(data, col) ==
    [p \in GroupKeys(data) |-> PyFloat(MeanRound2(GroupRows(data, p), col, 1))]

\* df_long.groupby("platform").agg({...}).round(2), columns joined by "_"
Summary(data) ==
    [ p \in GroupKeys(data) |->
        LET g == GroupRows(data, p)
        IN  [ views_sum            |-> SumCol(g, "views"),
              views_mean           |-> MeanRound2(g, "views", 100),
              clicks_sum           |-> SumCol(g, "clicks"),
              clicks_mean          |-> MeanRound2(g, "clicks", 100),
              conversions_sum      |-> SumCol(g, "conversions"),
              conversions_mean     |-> MeanRound2(g, "conversions", 100),
              cost_per_ad_mean     |-> MeanRound2(g, "cost_per_ad", 1),
              ctr_mean             |-> MeanRound2(g, "ctr", 1),
              conversion_rate_mean |-> MeanRound2(g, "conversion_rate", 1),
              cost_per_click_mean  |-> MeanRound2(g, "cost_per_click", 1) ] ]

-----------------------------------------------------------------------------
(* Steps 5 to 7: filter, insights, highlights *)

\* A plausible slip: the end date excluded.
InRange_exclusive(r, start, end, options) ==
    r.date >= start /\ r.date < end /\ r.platform \in options

\* The row mask of the filter: both dates included, platform among the selected.
InRange(r, start, end, options) ==
    r.date >= start /\ r.date <= end /\ r.platform \in options

\* A plausible slip: a float default, 0.0, in place of the int 0.
SeriesGet_float(series, key, default) ==
    IF key \in DOMAIN series THEN series[key] ELSE PyFloat(default.v)

\* series.get(key, default)
SeriesGet(series, key, default) ==
    IF key \in DOMAIN series THEN series[key] ELSE default

\* The markdown highlight_metric returns, as the two values it shows and the
\* one it sets in bold with the check mark ("none": neither).
Verdict(fb_val, aw_val, best) == [fb |-> fb_val, aw |-> aw_val, best |-> best]

\* def highlight_metric(fb_val, aw_val, metric_type): the comparisons are on
\* the arguments as passed, which are str.
highlight_metric(fb_val, aw_val, metric_type) ==
    IF metric_type = "higher_better"
    THEN IF StrLess(aw_val, fb_val) THEN Verdict(fb_val, aw_val, "Facebook")
         ELSE IF StrLess(fb_val, aw_val) THEN Verdict(fb_val, aw_val, "AdWords")
         ELSE Verdict(fb_val, aw_val, "none")
    ELSE IF metric_type = "lower_better"
    THEN IF StrLess(fb_val, aw_val) THEN Verdict(fb_val, aw_val, "Facebook")
         ELSE Verdict(fb_val, aw_val, "AdWords")
    ELSE Verdict(fb_val, aw_val, "none")

\* A plausible slip: >= in place of >.
BestOf_geq(fb, aw) == IF Cents(fb) >= Cents(aw) THEN "Facebook" ELSE "AdWords"

\* "Facebook" if fb > aw else "AdWords", on numbers.
BestOf(fb, aw) == IF Cents(fb) > Cents(aw) THEN "Facebook" ELSE "AdWords"

-----------------------------------------------------------------------------
(* The script as a state machine: one step per section *)

VARIABLES
    pc,                  \* the section the script is about to run
    df,                  \* the table read from the CSV
    df_long,             \* the reshaped table
    platform_summary,    \* step 3's summary, by platform
    start_date,          \* the filter widgets' values
    end_date,
    platform_options,
    filtered_data,
    total_views,         \* step 6's Series, by platform
    total_clicks,
    total_conversions,
    avg_ctr,
    avg_conversion_rate,
    avg_cost_per_click,
    display,             \* the twelve formatted strings of lines 169-180
    highlights,          \* what the six highlight_metric calls returned
    best_platform,
    num_arg,             \* a call of format_num on its own: the argument n
    num_str              \* and what it returned

data_vars == <<df_long, platform_summary>>
filter_vars == <<start_date, end_date, platform_options, filtered_data>>
insight_vars == <<total_views, total_clicks, total_conversions,
                  avg_ctr, avg_conversion_rate, avg_cost_per_click>>
call_vars == <<num_arg, num_str>>
vars == <<pc, df, data_vars, filter_vars, insight_vars,
          display, highlights, best_platform, call_vars>>

\* A run starts with none of its derived globals assigned: each is empty.
Init ==
    /\ pc = "reshape"
    /\ df \in Datasets
    /\ df_long = <<>>
    /\ platform_summary = <<>>
    /\ start_date = 0
    /\ end_date = 0
    /\ platform_options = {}
    /\ filtered_data = <<>>
    /\ total_views = <<>>
    /\ total_clicks = <<>>
    /\ total_conversions = <<>>
    /\ avg_ctr = <<>>
    /\ avg_conversion_rate = <<>>
    /\ avg_cost_per_click = <<>>
    /\ display = <<>>
    /\ highlights = <<>>
    /\ best_platform = "unset"
    /\ num_arg = 0
    /\ num_str = <<>>

\* Lines 24-45.
Reshape ==
    /\ pc = "reshape"
    /\ df_long' = Concat(df)
    /\ pc' = "summary"
    /\ UNCHANGED <<df, platform_summary, filter_vars, insight_vars,
                   display, highlights, best_platform, call_vars>>

\* Lines 56-67.
Summarize ==
    /\ pc = "summary"
    /\ platform_summary' = Summary(df_long)
    /\ pc' = "filter"
    /\ UNCHANGED <<df, df_long, filter_vars, insight_vars,
                   display, highlights, best_platform, call_vars>>

\* Lines 107-118: the widgets hold whatever the user chose, each date among
\* the dataset's and any subset of the platforms.
Filter ==
    /\ pc = "filter"
    /\ \E s \in 1 .. Len(df), e \in 1 .. Len(df), opts \in SUBSET Platforms :
         /\ start_date' = s
         /\ end_date' = e
         /\ platform_options' = opts
         /\ filtered_data' = SelectSeq(df_long, LAMBDA r : InRange(r, s, e, opts))
    /\ pc' = "insights"
    /\ UNCHANGED <<df, data_vars, insight_vars, display, highlights, best_platform, call_vars>>

\* Lines 134-139.
KeyInsights ==
    /\ pc = "insights"
    /\ total_views' = GroupSum(filtered_data, "views")
    /\ total_clicks' = GroupSum(filtered_data, "clicks")
    /\ total_conversions' = GroupSum(filtered_data, "conversions")
    /\ avg_ctr' = GroupMean(filtered_data, "ctr")
    /\ avg_conversion_rate' = GroupMean(filtered_data, "conversion_rate")
    /\ avg_cost_per_click' = GroupMean(filtered_data, "cost_per_click")
    /\ pc' = "format"
    /\ UNCHANGED <<df, data_vars, filter_vars, display, highlights, best_platform, call_vars>>

\* Lines 169-180.
FormatMetrics ==
    /\ pc = "format"
    /\ display' =
         [ total_views_fb  |-> format_num(SeriesGet(total_views, "Facebook", PyInt(0)).v),
           total_views_aw  |-> format_num(SeriesGet(total_views, "AdWords", PyInt(0)).v),
           total_clicks_fb |-> format_num(SeriesGet(total_clicks, "Facebook", PyInt(0)).v),
           total_clicks_aw |-> format_num(SeriesGet(total_clicks, "AdWords", PyInt(0)).v),
           total_conv_fb   |-> format_num(SeriesGet(total_conversions, "Facebook", PyInt(0)).v),
           total_conv_aw   |-> format_num(SeriesGet(total_conversions, "AdWords", PyInt(0)).v),
           avg_ctr_fb      |-> PyStr(SeriesGet(avg_ctr, "Facebook", PyInt(0))) \o <<"%">>,
           avg_ctr_aw      |-> PyStr(SeriesGet(avg_ctr, "AdWords", PyInt(0))) \o <<"%">>,
           avg_conv_fb     |-> PyStr(SeriesGet(avg_conversion_rate, "Facebook", PyInt(0))) \o <<"%">>,
           avg_conv_aw     |-> PyStr(SeriesGet(avg_conversion_rate, "AdWords", PyInt(0))) \o <<"%">>,
           avg_cpc_fb      |-> <<"$">> \o PyStr(SeriesGet(avg_cost_per_click, "Facebook", PyInt(0))),
           avg_cpc_aw      |-> <<"$">> \o PyStr(SeriesGet(avg_cost_per_click, "AdWords", PyInt(0))) ]
    /\ pc' = "highlight"
    /\ UNCHANGED <<df, data_vars, filter_vars, insight_vars, highlights, best_platform, call_vars>>

\* Lines 183-191.
DisplayHighlights ==
    /\ pc = "highlight"
    /\ highlights' =
         [ views           |-> highlight_metric(display.total_views_fb, display.total_views_aw, "higher_better"),
           clicks          |-> highlight_metric(display.total_clicks_fb, display.total_clicks_aw, "higher_better"),
           conversions     |-> highlight_metric(display.total_conv_fb, display.total_conv_aw, "higher_better"),
           ctr             |-> highlight_metric(display.avg_ctr_fb, display.avg_ctr_aw, "higher_better"),
           conversion_rate |-> highlight_metric(display.avg_conv_fb, display.avg_conv_aw, "higher_better"),
           cost_per_click  |-> highlight_metric(display.avg_cpc_fb, display.avg_cpc_aw, "lower_better") ]
    /\ pc' = "best"
    /\ UNCHANGED <<df, data_vars, filter_vars, insight_vars, display, best_platform, call_vars>>

\* Lines 194-195.
BestPlatform ==
    /\ pc = "best"
    /\ best_platform' = BestOf(SeriesGet(avg_conversion_rate, "Facebook", PyInt(0)),
                               SeriesGet(avg_conversion_rate, "AdWords", PyInt(0)))
    /\ pc' = "done"
    /\ UNCHANGED <<df, data_vars, filter_vars, insight_vars, display, highlights, call_vars>>

\* A widget changes: the script runs again from its first line, on the same
\* CSV, with none of its globals kept.
Rerun ==
    /\ pc = "done"
    /\ pc' = "reshape"
    /\ df' = df
    /\ df_long' = <<>>
    /\ platform_summary' = <<>>
    /\ start_date' = 0
    /\ end_date' = 0
    /\ platform_options' = {}
    /\ filtered_data' = <<>>
    /\ total_views' = <<>>
    /\ total_clicks' = <<>>
    /\ total_conversions' = <<>>
    /\ avg_ctr' = <<>>
    /\ avg_conversion_rate' = <<>>
    /\ avg_cost_per_click' = <<>>
    /\ display' = <<>>
    /\ highlights' = <<>>
    /\ best_platform' = "unset"
    /\ UNCHANGED call_vars

Next ==
    \/ Reshape
    \/ Summarize
    \/ Filter
    \/ KeyInsights
    \/ FormatMetrics
    \/ DisplayHighlights
    \/ BestPlatform
    \/ Rerun

Spec == Init /\ [][Next]_vars

-----------------------------------------------------------------------------
(* format_num called on its own, on arguments around its thresholds *)

FormatBases == {0, 940, 1000, 1200, 999940, 1000000, 1449990, 1500000}

FormatInputs == {b + i : b \in FormatBases, i \in 0 .. FormatSpan}

InitFormat ==
    /\ pc = "format_num"
    /\ num_arg \in FormatInputs
    /\ num_str = <<>>
    /\ df = <<>>
    /\ df_long = <<>>
    /\ platform_summary = <<>>
    /\ start_date = 0
    /\ end_date = 0
    /\ platform_options = {}
    /\ filtered_data = <<>>
    /\ total_views = <<>>
    /\ total_clicks = <<>>
    /\ total_conversions = <<>>
    /\ avg_ctr = <<>>
    /\ avg_conversion_rate = <<>>
    /\ avg_cost_per_click = <<>>
    /\ display = <<>>
    /\ highlights = <<>>
    /\ best_platform = "unset"

\* Lines 142-147, one call.
FormatNum ==
    /\ pc = "format_num"
    /\ num_str' = format_num(num_arg)
    /\ pc' = "returned"
    /\ UNCHANGED <<df, data_vars, filter_vars, insight_vars,
                   display, highlights, best_platform, num_arg>>

NextFormat == FormatNum

SpecFormat == InitFormat /\ [][NextFormat]_vars

-----------------------------------------------------------------------------
(* What the properties below speak of *)

HigherBetterMetrics == {"views", "clicks", "conversions", "ctr", "conversion_rate"}

TrackedMetrics == HigherBetterMetrics \cup {"cost_per_click"}

\* The filtered aggregate of a tracked metric, by platform.
SeriesOf(metric) ==
    CASE metric = "views" -> total_views
      [] metric = "clicks" -> total_clicks
      [] metric = "conversions" -> total_conversions
      [] metric = "ctr" -> avg_ctr
      [] metric = "conversion_rate" -> avg_conversion_rate
      [] metric = "cost_per_click" -> avg_cost_per_click

\* The number compared for a platform: its filtered sum or mean, 0 when the
\* platform has none (in hundredths).
Value(metric, p) == Cents(SeriesGet(SeriesOf(metric), p, PyInt(0)))

\* The script has shown its highlights / has finished.
Highlighted == pc \in {"best", "done"}

\* The platforms with at least one observation in the filtered data.
Observed == {p \in Platforms : \E i \in 1 .. Len(filtered_data) : filtered_data[i].platform = p}

\* The wide-format column of a platform's metric.
WideCol(p, metric) ==
    CASE p = "Facebook" /\ metric = "views" -> "facebook_ad_views"
      [] p = "AdWords" /\ metric = "views" -> "adword_ad_views"
      [] p = "Facebook" /\ metric = "conversion_rate" -> "facebook_conversion_rate"
      [] p = "AdWords" /\ metric = "conversion_rate" -> "adword_conversion_rate"

\* The rows of the CSV whose date is within the chosen range, ends included.
RowsInRange == SelectSeq(df, LAMBDA r : start_date <= r.date_of_campaign /\ r.date_of_campaign <= end_date)

\* The mean conversion rate of a platform over the chosen dates, to two
\* places, taken from the CSV's own column; 0 for a platform with nothing
\* selected.
MeanConversionRate(p) ==
    IF p \notin platform_options \/ RowsInRange = <<>> THEN 0
    ELSE RoundHalfEven(SumCol(RowsInRange, WideCol(p, "conversion_rate")), Len(RowsInRange))

\* The decimal digits of a string, as a number.
IsDigits(s) == s # <<>> /\ \A i \in 1 .. Len(s) : \E d \in 0 .. 9 : s[i] = Digit(d)

RECURSIVE DecValue(_)
DecValue(s) == IF s = <<>> THEN 0 ELSE 10 * DecValue(SubSeq(s, 1, Len(s) - 1)) + (Ord(s[Len(s)]) - 48)

\* s is "<digits>.<digit><suffix>" and the number it writes is within half a
\* tenth of n/unit.
IsAbbreviation(s, n, unit, suffix) ==
    /\ Len(s) >= 4
    /\ s[Len(s)] = suffix
    /\ s[Len(s) - 2] = "."
    /\ IsDigits(SubSeq(s, 1, Len(s) - 3))
    /\ IsDigits(<<s[Len(s) - 1]>>)
    /\ (Len(s) = 4 \/ s[1] # "0")
    /\ LET tenths == 10 * DecValue(SubSeq(s, 1, Len(s) - 3)) + DecValue(<<s[Len(s) - 1]>>)
       IN  /\ tenths * unit - (unit \div 2) <= 10 * n
           /\ 10 * n <= tenths * unit + (unit \div 2)

-----------------------------------------------------------------------------
(* Properties *)

\* Both platforms have observations in the filtered data, so that each value
\* compared is a sum or a mean of observations and none is a default.
BothObserved == Observed = Platforms

\* C1: for each higher-is-better metric, the highlight marks Facebook exactly
\* when Facebook's filtered value is numerically greater than AdWords', and
\* AdWords exactly when AdWords' is numerically greater (stated for filtered
\* data that holds both platforms).
C1_HigherBetterIsNumeric ==
    Highlighted /\ BothObserved =>
        \A m \in HigherBetterMetrics :
            /\ highlights[m].best = "Facebook" <=> Value(m, "Facebook") > Value(m, "AdWords")
            /\ highlights[m].best = "AdWords" <=> Value(m, "AdWords") > Value(m, "Facebook")

\* C2: for cost_per_click the highlight marks Facebook when Facebook's mean is
\* numerically lower than AdWords', and AdWords when AdWords' is lower (stated
\* for filtered data that holds both platforms).
C2_LowerBetterIsNumeric ==
    Highlighted /\ BothObserved =>
        /\ Value("cost_per_click", "Facebook") < Value("cost_per_click", "AdWords")
             => highlights["cost_per_click"].best = "Facebook"
        /\ Value("cost_per_click", "AdWords") < Value("cost_per_click", "Facebook")
             => highlights["cost_per_click"].best = "AdWords"

\* C3: for each of the six tracked metrics, when the two platforms' values are
\* equal neither platform is marked best (stated for filtered data that holds
\* both platforms).
C3_TieHasNoWinner ==
    Highlighted /\ BothObserved =>
        \A m \in TrackedMetrics :
            Value(m, "Facebook") = Value(m, "AdWords") => highlights[m].best = "none"

\* C4 as claimed: best_platform is the platform with the strictly greater mean
\* conversion rate, and "Facebook" when the two means are equal (stated for
\* filtered data that holds both platforms).
C4_TieGivesFacebook ==
    pc = "done" /\ BothObserved =>
        best_platform =
            IF MeanConversionRate("AdWords") > MeanConversionRate("Facebook")
            THEN "AdWords" ELSE "Facebook"

\* C4 as amended: best_platform is "Facebook" when Facebook's mean conversion
\* rate (to two places, 0 for a platform without observations) is strictly
\* greater than AdWords', and "AdWords" otherwise, equal means included.
C4_TieGivesAdWords ==
    pc = "done" =>
        best_platform =
            IF MeanConversionRate("Facebook") > MeanConversionRate("AdWords")
            THEN "Facebook" ELSE "AdWords"

C4_Witness ==
    /\ pc = "done"
    /\ BothObserved
    /\ MeanConversionRate("Facebook") = MeanConversionRate("AdWords")
    /\ MeanConversionRate("Facebook") > 0
    /\ best_platform = "AdWords"

\* C5: format_num writes n < 1000 as its decimal digits, 1000 <= n < 1000000
\* as n/1000 to one decimal followed by K, and n >= 1000000 as n/1000000 to
\* one decimal followed by M; 999 is "999", 1000 is "1.0K", 1500000 is "1.5M".
C5_FormatNum ==
    pc = "returned" =>
        /\ num_arg < 1000 =>
             /\ IsDigits(num_str)
             /\ DecValue(num_str) = num_arg
             /\ (Len(num_str) = 1 \/ num_str[1] # "0")
        /\ (1000 <= num_arg /\ num_arg < 1000000) =>
             IsAbbreviation(num_str, num_arg, 1000, "K")
        /\ num_arg >= 1000000 => IsAbbreviation(num_str, num_arg, 1000000, "M")
        /\ num_arg = 999 => num_str = <<"9", "9", "9">>
        /\ num_arg = 1000 => num_str = <<"1", ".", "0", "K">>
        /\ num_arg = 1500000 => num_str = <<"1", ".", "5", "M">>

C5_Witness ==
    /\ pc = "returned"
    /\ num_arg = 1000
    /\ num_str = <<"1", ".", "0", "K">>

\* C6: the reshape of N records gives 2N observations, N tagged Facebook and N
\* tagged AdWords; record i gives one Facebook observation with its date and
\* its seven facebook_* values under the shared names, and one AdWords
\* observation with the same date and its seven adword_* values.
C6_Reshape ==
    pc # "reshape" /\ pc # "format_num" =>
        LET N == Len(df)
        IN  /\ Len(df_long) = 2 * N
            /\ Cardinality({i \in 1 .. Len(df_long) : df_long[i].platform = "Facebook"}) = N
            /\ Cardinality({i \in 1 .. Len(df_long) : df_long[i].platform = "AdWords"}) = N
            /\ \A i \in 1 .. N :
                 /\ df_long[i] =
                      [ date            |-> df[i].date_of_campaign,
                        views           |-> df[i].facebook_ad_views,
                        clicks          |-> df[i].facebook_ad_clicks,
                        conversions     |-> df[i].facebook_ad_conversions,
                        cost_per_ad     |-> df[i].facebook_cost_per_ad,
                        ctr             |-> df[i].facebook_ctr,
                        conversion_rate |-> df[i].facebook_conversion_rate,
                        cost_per_click  |-> df[i].facebook_cost_per_click,
                        platform        |-> "Facebook" ]
                 /\ df_long[N + i] =
                      [ date            |-> df[i].date_of_campaign,
                        views           |-> df[i].adword_ad_views,
                        clicks          |-> df[i].adword_ad_clicks,
                        conversions     |-> df[i].adword_ad_conversions,
                        cost_per_ad     |-> df[i].adword_cost_per_ad,
                        ctr             |-> df[i].adword_ctr,
                        conversion_rate |-> df[i].adword_conversion_rate,
                        cost_per_click  |-> df[i].adword_cost_per_click,
                        platform        |-> "AdWords" ]

C6_Witness ==
    /\ pc = "summary"
    /\ Len(df) = 2
    /\ df[1].facebook_ad_views = 100
    /\ df[1].adword_ad_views = 80
    /\ Len(df_long) = 4
    /\ df_long[1].platform = "Facebook" /\ df_long[1].views = 100
    /\ df_long[3].platform = "AdWords" /\ df_long[3].views = 80

\* C7: a platform has an entry in each filtered aggregate exactly when some
\* observation of that platform is of a selected platform and dated within
\* [start_date, end_date], both ends included; otherwise it has no entry.
C7_FilteredKeys ==
    pc \in {"format", "highlight", "best", "done"} =>
        \A m \in TrackedMetrics :
            DOMAIN SeriesOf(m) =
                { p \in Platforms :
                    \E i \in 1 .. Len(df_long) :
                        /\ df_long[i].platform = p
                        /\ p \in platform_options
                        /\ start_date <= df_long[i].date
                        /\ df_long[i].date <= end_date }

C7_Witness ==
    /\ pc = "format"
    /\ Len(df) = 2
    /\ platform_options = {"Facebook"}
    /\ start_date = 2
    /\ end_date = 2
    /\ DOMAIN total_views = {"Facebook"}
    /\ DOMAIN avg_conversion_rate = {"Facebook"}

\* C8: each platform's views_sum in the summary equals the sum of that
\* platform's views column in the wide table.
C8_SummaryViewsSum ==
    pc \in {"filter", "insights", "format", "highlight", "best", "done"} =>
        /\ DOMAIN platform_summary = Platforms
        /\ \A p \in Platforms :
             platform_summary[p].views_sum = SumCol(df, WideCol(p, "views"))

C8_Witness ==
    /\ pc = "filter"
    /\ Len(df) = 2
    /\ platform_summary["Facebook"].views_sum = 180
    /\ platform_summary["AdWords"].views_sum = 1500100

\* C9: for a platform without an entry in the filtered aggregates the display
\* uses 0 for every sum and every mean: its strings are "0", "0%" and "$0".
C9_MissingShownAsZero ==
    pc \in {"highlight", "best", "done"} =>
        /\ "Facebook" \notin Observed =>
             /\ display.total_views_fb = <<"0">>
             /\ display.total_clicks_fb = <<"0">>
             /\ display.total_conv_fb = <<"0">>
             /\ display.avg_ctr_fb = <<"0", "%">>
             /\ display.avg_conv_fb = <<"0", "%">>
             /\ display.avg_cpc_fb = <<"$", "0">>
        /\ "AdWords" \notin Observed =>
             /\ display.total_views_aw = <<"0">>
             /\ display.total_clicks_aw = <<"0">>
             /\ display.total_conv_aw = <<"0">>
             /\ display.avg_ctr_aw = <<"0", "%">>
             /\ display.avg_conv_aw = <<"0", "%">>
             /\ display.avg_cpc_aw = <<"$", "0">>

C9_Witness ==
    /\ pc = "done"
    /\ filtered_data = <<>>
    /\ display.total_views_fb = <<"0">>
    /\ display.avg_ctr_fb = <<"0", "%">>
    /\ display.avg_cpc_aw = <<"$", "0">>

\* C10: a platform without an observation in the filtered data is never marked
\* best for any of the six metrics and is never named by best_platform.
C10_AbsentNeverBest ==
    pc = "done" =>
        \A p \in Platforms \ Observed :
            /\ best_platform # p
            /\ \A m \in TrackedMetrics : highlights[m].best # p

=============================================================================
